---- MODULE Spec2Model ----
(***************************************************************************)
(* One run of the Unilever dashboard script (src/Unilever.py): the fetch   *)
(* with urllib3 retries, the reshaping of the fetched records into a       *)
(* DataFrame, the date and categorical filters, the metrics, the export,   *)
(* the map and the two charts.  The script is linear, so the state is the  *)
(* module-level names it binds, what it has shown on the page, and the     *)
(* line it has reached (pc).                                               *)
(*                                                                         *)
(* Numbers are fixed point, in tenths (10.5 is 105).  Strings that the     *)
(* code splits, joins or parses are sequences of one-character strings.    *)
(* Timestamps are ticks, TicksPerSecond to the second (pandas keeps        *)
(* nanoseconds).                                                           *)
(***************************************************************************)
EXTENDS Integers, Sequences, FiniteSets, TLC

\* ---------------------------------------------------------------- bounds
\* Most records one payload carries.
MaxRows == 3
\* The calendar dates the two date inputs offer are 0 .. MaxDay.
MaxDay == 1
\* Resolution of a timestamp below the second.
TicksPerSecond == 2

\* ------------------------------------------------------- program constants
\* Retry(total=5, ...)
RetryTotal == 5
\* pd.Timedelta(days=1), in seconds
SecondsPerDay == 86400
\* the four columns the GPS split is assigned to
GpsWidth == 4

\* Retry(status_forcelist=[500, 502, 503, 504])
status_forcelist == {500, 502, 503, 504}
\* urllib3.util.retry.Retry.RETRY_AFTER_STATUS_CODES, honoured because the
\* Retry object is built with the default respect_retry_after_header=True
RETRY_AFTER_STATUS_CODES == {413, 429, 503}

\* ---------------------------------------------------------------- values
Null == [t |-> "null"]
Absent == [t |-> "absent"]
Unbound == [t |-> "unbound"]
Num(n) == [t |-> "num", v |-> n]
Str(s) == [t |-> "str", v |-> s]
Lst(l) == [t |-> "list", v |-> l]
\* a submission time as the API writes it: day, second of the day, fraction
Time(d, s, f) == [t |-> "time", day |-> d, sec |-> s, sub |-> f]
\* a pandas Timestamp
Stamp(n) == [t |-> "ts", v |-> n]

IsNull(x) == x.t = "null"

Range(s) == {s[i] : i \in 1..Len(s)}

\* ------------------------------------------------------- string helpers
Digits == {"0", "1", "2", "3", "4", "5", "6", "7", "8", "9"}

DigitVal(c) ==
    CASE c = "0" -> 0 [] c = "1" -> 1 [] c = "2" -> 2 [] c = "3" -> 3
      [] c = "4" -> 4 [] c = "5" -> 5 [] c = "6" -> 6 [] c = "7" -> 7
      [] c = "8" -> 8 [] c = "9" -> 9

RECURSIVE IntOf(_)
\* the value of a sequence of digits
IntOf(ds) ==
    IF ds = <<>> THEN 0
    ELSE 10 * IntOf(SubSeq(ds, 1, Len(ds) - 1)) + DigitVal(ds[Len(ds)])

\* position of the first sep in s, 0 when there is none
FirstIndex(s, sep) ==
    IF \E i \in 1..Len(s) : s[i] = sep
    THEN CHOOSE i \in 1..Len(s) : s[i] = sep /\ \A j \in 1..(i - 1) : s[j] # sep
    ELSE 0

RECURSIVE Split(_, _)
\* str.split(sep): every separator cuts, so "a  b" gives "a", "", "b"
Split(s, sep) ==
    LET i == FirstIndex(s, sep)
    IN  IF i = 0 THEN <<s>>
        ELSE <<SubSeq(s, 1, i - 1)>> \o Split(SubSeq(s, i + 1, Len(s)), sep)

RECURSIVE Join(_, _)
\* sep.join(parts)
Join(parts, sep) ==
    IF parts = <<>> THEN <<>>
    ELSE IF Len(parts) = 1 THEN parts[1]
    ELSE parts[1] \o sep \o Join(Tail(parts), sep)

\* float(tok) succeeds: digits with at most one point and at least one digit
IsFloatLiteral(tok) ==
    /\ \A i \in 1..Len(tok) : tok[i] \in Digits \cup {"."}
    /\ Cardinality({i \in 1..Len(tok) : tok[i] = "."}) <= 1
    /\ \E i \in 1..Len(tok) : tok[i] \in Digits

\* float(tok) in tenths (one fractional digit is kept)
FloatOf(tok) ==
    LET p == FirstIndex(tok, ".")
        whole == IF p = 0 THEN tok ELSE SubSeq(tok, 1, p - 1)
        frac == IF p = 0 \/ p = Len(tok) THEN 0 ELSE DigitVal(tok[p + 1])
    IN  10 * IntOf(whole) + frac

\* ------------------------------------------------------------ DataFrames
\* A DataFrame: its column names, its index labels in row order, its cells.
Frame(cols, idx, cells) == [t |-> "frame", columns |-> cols, index |-> idx, cell |-> cells]

Labels(df) == Range(df.index)

\* df[col] = values
SetColumn(df, col, values) ==
    Frame(df.columns \cup {col}, df.index,
          [l \in Labels(df) |->
              [c \in df.columns \cup {col} |->
                  IF c = col THEN values[l] ELSE df.cell[l][c]]])

\* df.drop(columns=[col])
DropColumn(df, col) ==
    Frame(df.columns \ {col}, df.index,
          [l \in Labels(df) |-> [c \in df.columns \ {col} |-> df.cell[l][c]]])

\* df[mask]: the rows whose label is in keep, in order
Take(df, keep) ==
    LET idx == SelectSeq(df.index, LAMBDA l : l \in keep)
    IN  Frame(df.columns, idx, [l \in Range(idx) |-> df.cell[l]])

\* df[cols]
Project(df, cols) ==
    Frame(cols, df.index, [l \in Labels(df) |-> [c \in cols |-> df.cell[l][c]]])

\* pd.json_normalize(results): one row per record, labelled 0 .. n-1; the
\* columns are the union of the records' keys and a missing key is NaN
json_normalize(results) ==
    LET n == Len(results)
        cols == UNION {DOMAIN results[i] : i \in 1..n}
    IN  Frame(cols, [i \in 1..n |-> i - 1],
              [l \in 0..(n - 1) |->
                  [c \in cols |->
                      IF c \in DOMAIN results[l + 1] THEN results[l + 1][c] ELSE Null]])

\* series.unique(): the distinct values, NaN among them when present
Unique(df, col) == {df.cell[l][col] : l \in Labels(df)}

\* series.value_counts(): occurrences of each non-null value
value_counts(df, col) ==
    [t |-> "counts",
     counts |-> [v \in {x \in Unique(df, col) : ~IsNull(x)} |->
                    Cardinality({l \in Labels(df) : df.cell[l][col] = v})]]

\* ------------------------------------------------------------ the inputs
Keys == {"GPS", "Sondage", "GPI", "_submission_time",
         "Identification/Province", "Identification/Commune",
         "Identification/Adresse_PDV", "Name_Agent", "Identification/Type_PDV"}

\* a submission: the keys whose value is not Absent
Submission(gps, sondage, gpi, time, province, agent, type) ==
    LET all == [k \in Keys |->
                  CASE k = "GPS" -> gps
                    [] k = "Sondage" -> sondage
                    [] k = "GPI" -> gpi
                    [] k = "_submission_time" -> time
                    [] k = "Identification/Province" -> province
                    [] k = "Identification/Commune" -> Str(<<"C">>)
                    [] k = "Identification/Adresse_PDV" -> Str(<<"V">>)
                    [] k = "Name_Agent" -> agent
                    [] k = "Identification/Type_PDV" -> type]
    IN  [k \in {x \in Keys : all[x].t # "absent"} |-> all[k]]

\* "1.5 2 3 4"
Gps4 == Str(<<"1", ".", "5", " ", "2", " ", "3", " ", "4">>)
\* "2 3 4 5"
Gps4b == Str(<<"2", " ", "3", " ", "4", " ", "5">>)
\* "1.5 2 3"
Gps3 == Str(<<"1", ".", "5", " ", "2", " ", "3">>)
\* "1.5"
Gps1 == Str(<<"1", ".", "5">>)
\* "x 2 3 4"
GpsBad == Str(<<"x", " ", "2", " ", "3", " ", "4">>)
\* "Retail 10.5 3 31.5"
SurveyLine ==
    Str(<<"R", "e", "t", "a", "i", "l", " ", "1", "0", ".", "5", " ", "3", " ",
          "3", "1", ".", "5">>)

A == Str(<<"A">>)
B == Str(<<"B">>)
X == Str(<<"X">>)
Y == Str(<<"Y">>)
Kiosk == Str(<<"K">>)
Shop == Str(<<"S">>)

\* The submissions a payload is drawn from, in the order the API returns them.
Pool ==
    << Submission(Gps4, Num(100), Absent, Time(0, 43200, 0), A, X, Kiosk),
       Submission(Absent, Null, Lst(<< <<"a">>, <<"b">> >>), Time(0, 86399, 0), Null, Y, Shop),
       Submission(Gps4b, Num(200), Absent, Time(1, 0, 0), B, X, Shop),
       Submission(Gps4, SurveyLine, Absent, Time(0, 86399, 1), A, Y, Kiosk),
       Submission(Gps3, Lst(<< <<"1", "0">> >>), Absent, Time(1, 43200, 0), B, X, Null),
       Submission(GpsBad, Lst(<< <<"a">>, <<"b">> >>), Absent, Time(1, 43200, 0), B, Y, Shop),
       Submission(Gps4b, Absent, Absent, Time(0, 0, 0), A, Y, Kiosk),
       Submission(Gps1, Num(200), Absent, Time(0, 43200, 0), Null, X, Kiosk),
       Submission(Absent, Absent, Absent, Time(1, 86399, 1), B, Y, Shop),
       Submission(Gps4, Num(100), Absent, Null, A, X, Shop) >>

\* the records chosen by a set of positions of the pool, in pool order
Pick(S) ==
    LET pos == SelectSeq([i \in 1..Len(Pool) |-> i], LAMBDA i : i \in S)
    IN  [j \in 1..Len(pos) |-> Pool[pos[j]]]

ResultLists == {Pick(S) : S \in {T \in SUBSET (1..Len(Pool)) : Cardinality(T) <= MaxRows}}

\* What response.json() can return: {} , an object without "results", or
\* {"results": [...]}.
Payload(keys, results) == [t |-> "dict", keys |-> keys, results |-> results]

Payloads ==
    {Payload({}, <<>>), Payload({"detail"}, <<>>)}
        \cup {Payload({"results"}, r) : r \in ResultLists}

None == [t |-> "none"]

\* What one request can meet: an HTTP status (with or without a Retry-After
\* header), a timeout, or a connection failure.
Response(kind, code, retry_after) ==
    [kind |-> kind, code |-> code, retry_after |-> retry_after]

Responses ==
    {Response("status", 200, FALSE)}
        \cup {Response("status", c, h) : c \in {404, 429, 500, 502, 503, 504}, h \in BOOLEAN}
        \cup {Response("timeout", 0, FALSE), Response("connection", 0, FALSE)}

NoResponse == Response("none", 0, FALSE)

\* ----------------------------------------------------------------- state
VARIABLES
    pc,              \* the line of the script the run has reached
    total,           \* Retry.total still left for this fetch
    requests,        \* requests this fetch has sent
    last,            \* what the last request met
    data,            \* the module-level name data
    ui,              \* what the page shows
    exc,             \* the exception that ended the run, or None
    df_kobo,
    date1,
    date2,
    df_filtered,
    filters,
    metric,          \* the values of the two st.metric widgets
    df_final,
    map_folium,      \* the map's centre and markers
    pie_chart_data,
    bar_chart_data,
    col1             \* the names col1, col2 (bound together at line 176)

vars == <<pc, total, requests, last, data, ui, exc, df_kobo, date1, date2,
          df_filtered, filters, metric, df_final, map_folium, pie_chart_data,
          bar_chart_data, col1>>

fetchVars == <<total, requests, last>>
frameVars == <<df_kobo, date1, date2, df_filtered, filters, metric, df_final,
               map_folium, pie_chart_data, bar_chart_data, col1>>

Init ==
    /\ pc = "fetch"
    /\ total = RetryTotal
    /\ requests = 0
    /\ last = NoResponse
    /\ data = Unbound
    /\ ui = {}
    /\ exc = None
    /\ df_kobo = Unbound
    /\ date1 = Unbound
    /\ date2 = Unbound
    /\ df_filtered = Unbound
    /\ filters = Unbound
    /\ metric = Unbound
    /\ df_final = Unbound
    /\ map_folium = Unbound
    /\ pie_chart_data = Unbound
    /\ bar_chart_data = Unbound
    /\ col1 = Unbound

\* an uncaught exception, raised at a line of the script, ends the run
Exception(name, line) == [t |-> "exception", name |-> name, line |-> line]

Raise(name, line) ==
    /\ pc' = "crashed"
    /\ exc' = Exception(name, line)

\* ----------------------------------------------------------------- fetch
\* is_retry with every error status taken for retryable
is_retry_any_error(resp, t) == resp.kind = "status" /\ resp.code >= 400

\* Retry.is_retry for a GET: a status of status_forcelist, or a status of
\* RETRY_AFTER_STATUS_CODES that carries Retry-After while total is not 0
is_retry(resp, t) ==
    /\ resp.kind = "status"
    /\ \/ resp.code \in status_forcelist
       \/ t # 0 /\ resp.retry_after /\ resp.code \in RETRY_AFTER_STATUS_CODES

\* what urlopen hands to Retry.increment: a retryable status, or an error
\* of the transport (a GET is idempotent, so a read error counts too)
Increments(resp, t) == resp.kind \in {"timeout", "connection"} \/ is_retry(resp, t)

\* Retry.is_exhausted
is_exhausted(t) == t < 0

\* session.get: a request whose outcome is retried
RetryRequest ==
    /\ pc = "fetch"
    /\ \E resp \in Responses :
          /\ Increments(resp, total)
          /\ ~is_exhausted(total - 1)
          /\ total' = total - 1
          /\ requests' = requests + 1
          /\ last' = resp
    /\ UNCHANGED <<pc, data, ui, exc, frameVars>>

\* session.get or raise_for_status raises a RequestException: the retries
\* are exhausted, or the status is an error that is not retried
FetchFails ==
    /\ pc = "fetch"
    /\ \E resp \in Responses :
          /\ \/ Increments(resp, total) /\ is_exhausted(total - 1)
             \/ resp.kind = "status" /\ ~is_retry(resp, total) /\ resp.code >= 400
          /\ requests' = requests + 1
          /\ last' = resp
    /\ ui' = ui \cup {"error: Error retrieving the data"}
    /\ data' = None
    /\ pc' = "returned"
    /\ UNCHANGED <<total, exc, frameVars>>

\* the request is answered 200 and response.json() is returned
FetchSucceeds ==
    /\ pc = "fetch"
    /\ \E resp \in Responses :
          /\ resp.kind = "status" /\ ~is_retry(resp, total) /\ resp.code < 400
          /\ requests' = requests + 1
          /\ last' = resp
    /\ \E payload \in Payloads : data' = payload
    /\ pc' = "returned"
    /\ UNCHANGED <<total, ui, exc, frameVars>>

\* bool(data)
Truthy(d) == d.t = "dict" /\ d.keys # {}

\* if data: ...  (the call's own state is gone once it has returned)
CheckData ==
    /\ pc = "returned"
    /\ total' = RetryTotal
    /\ requests' = 0
    /\ last' = NoResponse
    /\ IF Truthy(data)
       THEN /\ ui' = ui \cup {"success"}
            /\ pc' = "normalize"
       ELSE /\ ui' = ui
            /\ pc' = "pie"
    /\ UNCHANGED <<data, exc, frameVars>>

\* ------------------------------------------------------------- reshaping
\* df_kobo = pd.json_normalize(data['results']), the raw table and its export
Normalize ==
    /\ pc = "normalize"
    /\ IF "results" \notin data.keys
       THEN /\ Raise("KeyError", 46)
            /\ UNCHANGED <<df_kobo, ui>>
       ELSE /\ df_kobo' = json_normalize(data.results)
            /\ ui' = ui \cup {"raw table", "raw download"}
            /\ pc' = "flatten"
            /\ exc' = exc
    /\ UNCHANGED <<fetchVars, data, date1, date2, df_filtered, filters, metric,
                   df_final, map_folium, pie_chart_data, bar_chart_data, col1>>

\* ', '.join([str(obj) for obj in x]) if isinstance(x, list) else x
ListToText(x) == IF x.t = "list" THEN Str(Join(x.v, <<",", " ">>)) ELSE x

\* the column col, when present, is replaced by its text form as newcol
Transform(df, col, newcol) ==
    IF col \in df.columns
    THEN DropColumn(SetColumn(df, newcol,
                              [l \in Labels(df) |-> ListToText(df.cell[l][col])]), col)
    ELSE df

\* the GPI and Sondage columns
Flatten ==
    /\ pc = "flatten"
    /\ df_kobo' = Transform(Transform(df_kobo, "GPI", "GPI_Transformed"),
                            "Sondage", "Sondage_Transformed")
    /\ pc' = "gps"
    /\ UNCHANGED <<fetchVars, data, ui, exc, date1, date2, df_filtered, filters,
                   metric, df_final, map_folium, pie_chart_data, bar_chart_data, col1>>

\* one row of series.str.split(' '): the tokens of a string, none for NaN
Tokens(x) == IF x.t = "str" THEN Split(x.v, " ") ELSE <<>>

Max(S) == IF S = {} THEN 0 ELSE CHOOSE m \in S : \A n \in S : n <= m

\* str.split(' ', expand=True): as many columns as the longest row has
\* tokens, the shorter rows padded with None
gps_split(df) ==
    LET width == Max({Len(Tokens(df.cell[l]["GPS"])) : l \in Labels(df)})
    IN  [l \in Labels(df) |->
            [j \in 1..width |->
                IF j <= Len(Tokens(df.cell[l]["GPS"]))
                THEN Str(Tokens(df.cell[l]["GPS"])[j]) ELSE Null]]

SplitWidth(split) == Max({Len(split[l]) : l \in DOMAIN split})

\* gps_split.astype(float) raises ValueError on a token float() rejects
AstypeFails(split) ==
    \E l \in DOMAIN split : \E j \in 1..Len(split[l]) :
        ~IsNull(split[l][j]) /\ ~IsFloatLiteral(split[l][j].v)

astype_float(x) == IF IsNull(x) THEN Null ELSE Num(FloatOf(x.v))

GpsColumns == <<"Latitude", "Longitude", "Altitude", "Other">>

\* df_kobo[['Latitude', 'Longitude', 'Altitude', 'Other']] = gps_split.astype(float)
\* raises ValueError unless the split has exactly the four columns
GpsFails(df) ==
    LET split == gps_split(df)
    IN  AstypeFails(split) \/ SplitWidth(split) # GpsWidth

RECURSIVE AssignGps(_, _, _)
AssignGps(df, split, j) ==
    IF j > GpsWidth THEN df
    ELSE AssignGps(SetColumn(df, GpsColumns[j],
                             [l \in Labels(df) |-> astype_float(split[l][j])]),
                   split, j + 1)

ProcessGPS ==
    /\ pc = "gps"
    /\ IF "GPS" \notin df_kobo.columns
       THEN /\ df_kobo' = df_kobo
            /\ pc' = "to_datetime"
            /\ exc' = exc
       ELSE IF GpsFails(df_kobo)
       THEN /\ Raise("ValueError", 81)
            /\ df_kobo' = df_kobo
       ELSE /\ df_kobo' = AssignGps(df_kobo, gps_split(df_kobo), 1)
            /\ pc' = "to_datetime"
            /\ exc' = exc
    /\ UNCHANGED <<fetchVars, data, ui, date1, date2, df_filtered, filters, metric,
                   df_final, map_folium, pie_chart_data, bar_chart_data, col1>>

\* --------------------------------------------------------------- filters
DayTicks == SecondsPerDay * TicksPerSecond

\* pd.to_datetime of a submission time; a missing one is NaT
to_datetime(x) ==
    IF x.t = "time" THEN Stamp((x.day * SecondsPerDay + x.sec) * TicksPerSecond + x.sub)
    ELSE Null

ConvertDate ==
    /\ pc = "to_datetime"
    /\ IF "_submission_time" \notin df_kobo.columns
       THEN /\ Raise("KeyError", 84)
            /\ df_kobo' = df_kobo
       ELSE /\ df_kobo' = SetColumn(df_kobo, "_submission_time",
                              [l \in Labels(df_kobo) |->
                                  to_datetime(df_kobo.cell[l]["_submission_time"])])
            /\ pc' = "dates"
            /\ exc' = exc
    /\ UNCHANGED <<fetchVars, data, ui, date1, date2, df_filtered, filters, metric,
                   df_final, map_folium, pie_chart_data, bar_chart_data, col1>>

\* pd.to_datetime(date1): midnight of the chosen day
StartOf(d) == Stamp(d * DayTicks)

\* pd.to_datetime(date2) + pd.Timedelta(days=1) - pd.Timedelta(seconds=1)
EndOf(d) == Stamp(d * DayTicks + DayTicks - TicksPerSecond)

\* (t >= date1) & (t <= date2); a comparison with NaT is False
InRange(t, from, to) == ~IsNull(t) /\ t.v >= from.v /\ t.v <= to.v

DateFilter ==
    /\ pc = "dates"
    /\ \E d1 \in 0..MaxDay, d2 \in 0..MaxDay :
          /\ date1' = StartOf(d1)
          /\ date2' = EndOf(d2)
          /\ df_filtered' =
                Take(df_kobo, {l \in Labels(df_kobo) :
                        InRange(df_kobo.cell[l]["_submission_time"], StartOf(d1), EndOf(d2))})
    /\ pc' = "filters"
    /\ UNCHANGED <<fetchVars, data, ui, exc, df_kobo, filters, metric, df_final,
                   map_folium, pie_chart_data, bar_chart_data, col1>>

\* the keys of the filters dict, in its order
FilterColumns == <<"Identification/Province", "Identification/Commune",
                   "Identification/Adresse_PDV", "Name_Agent">>

\* series.isin(selection): NaN is matched by a NaN of the selection
isin(x, selection) == x \in selection

RECURSIVE ApplyFilters(_, _, _)
\* for col, selection in filters.items(): if selection: df = df[df[col].isin(selection)]
ApplyFilters(df, sel, j) ==
    IF j > Len(FilterColumns) THEN df
    ELSE LET col == FilterColumns[j]
         IN  ApplyFilters(IF sel[col] # {}
                          THEN Take(df, {l \in Labels(df) : isin(df.cell[l][col], sel[col])})
                          ELSE df,
                          sel, j + 1)

\* the filters dict: what each st.sidebar.multiselect returned
Selection(s1, s2, s3, s4) ==
    [c \in Range(FilterColumns) |->
        CASE c = FilterColumns[1] -> s1
          [] c = FilterColumns[2] -> s2
          [] c = FilterColumns[3] -> s3
          [] c = FilterColumns[4] -> s4]

CategoricalFilters ==
    /\ pc = "filters"
    /\ IF \E c \in Range(FilterColumns) : c \notin df_filtered.columns
       THEN /\ Raise("KeyError", 103)
            /\ UNCHANGED <<filters, df_filtered>>
       ELSE /\ \E s1 \in SUBSET Unique(df_filtered, FilterColumns[1]),
                     s2 \in SUBSET Unique(df_filtered, FilterColumns[2]),
                     s3 \in SUBSET Unique(df_filtered, FilterColumns[3]),
                     s4 \in SUBSET Unique(df_filtered, FilterColumns[4]) :
                  /\ filters' = Selection(s1, s2, s3, s4)
                  /\ df_filtered' = ApplyFilters(df_filtered, Selection(s1, s2, s3, s4), 1)
            /\ pc' = "analytics"
            /\ exc' = exc
    /\ UNCHANGED <<fetchVars, data, ui, df_kobo, date1, date2, metric, df_final,
                   map_folium, pie_chart_data, bar_chart_data, col1>>

\* ------------------------------------------------------------- analytics
\* pd.to_numeric(x, errors='coerce'): a number stays, a string is parsed,
\* and what does not parse is NaN
to_numeric(x) ==
    CASE x.t = "num" -> x
      [] x.t = "str" -> IF IsFloatLiteral(x.v) THEN Num(FloatOf(x.v)) ELSE Null
      [] OTHER -> Null

RECURSIVE SumOver(_, _, _)
\* series.sum(): NaN is skipped, and the sum of nothing is 0
SumOver(df, col, idx) ==
    IF idx = <<>> THEN 0
    ELSE (IF IsNull(df.cell[Head(idx)][col]) THEN 0 ELSE df.cell[Head(idx)][col].v)
            + SumOver(df, col, Tail(idx))

\* series.sum(skipna=False): NaN as soon as one entry is NaN
SumKeepsNaN(df, col) ==
    IF \E l \in Labels(df) : IsNull(df.cell[l][col]) THEN Null
    ELSE Num(SumOver(df, col, df.index))

Sum(df, col) == Num(SumOver(df, col, df.index))

\* the ANALYTICS expander: the two metrics, or the error when the column
\* 'Sondage_Transformed' is missing
Analytics ==
    /\ pc = "analytics"
    /\ IF "Sondage_Transformed" \in df_filtered.columns
       THEN LET scored == SetColumn(df_filtered, "Sondage/PVT",
                              [l \in Labels(df_filtered) |->
                                  to_numeric(df_filtered.cell[l]["Sondage_Transformed"])])
            IN  /\ df_filtered' = scored
                /\ metric' = [t |-> "metric", num_rows |-> Len(scored.index),
                              total_price |-> Sum(scored, "Sondage/PVT")]
                /\ ui' = ui \cup {"metrics"}
       ELSE /\ ui' = ui \cup {"error: La colonne 'Sondage_Transformed' n'existe pas"}
            /\ UNCHANGED <<df_filtered, metric>>
    /\ pc' = "export"
    /\ UNCHANGED <<fetchVars, data, exc, df_kobo, date1, date2, filters, df_final,
                   map_folium, pie_chart_data, bar_chart_data, col1>>

\* what the column multiselect can return: its default (every column of
\* df_kobo), or a narrower choice
ColumnChoices(df) == {df.columns, df.columns \cap {"Name_Agent", "_submission_time"}}

\* df_final = df_filtered[columns], shown and offered as a download
Export ==
    /\ pc = "export"
    /\ \E columns \in ColumnChoices(df_kobo) : df_final' = Project(df_filtered, columns)
    /\ ui' = ui \cup {"filtered table", "filtered download"}
    /\ pc' = "map"
    /\ UNCHANGED <<fetchVars, data, exc, df_kobo, date1, date2, df_filtered, filters,
                   metric, map_folium, pie_chart_data, bar_chart_data, col1>>

\* df[cols].isna().all().any(): some column of cols holds nothing but NaN
\* (every column of an empty frame does)
AnyAllNa(df, cols) == \E c \in cols : \A l \in Labels(df) : IsNull(df.cell[l][c])

\* df.dropna(subset=cols, how='all'): only the rows with no value at all go
dropna_all(df, cols) ==
    Take(df, {l \in Labels(df) : \E c \in cols : ~IsNull(df.cell[l][c])})

\* df.dropna(subset=cols)
dropna(df, cols) ==
    Take(df, {l \in Labels(df) : \A c \in cols : ~IsNull(df.cell[l][c])})

\* series.mean(), NaN for an empty series
Mean(df, col) ==
    IF df.index = <<>> THEN Null ELSE Num(Sum(df, col).v \div Len(df.index))

\* one folium.Marker per row
Markers(df) ==
    [i \in 1..Len(df.index) |->
        [location |-> <<df.cell[df.index[i]]["Latitude"], df.cell[df.index[i]]["Longitude"]>>,
         popup |-> df.cell[df.index[i]]["Name_Agent"]]]

\* the map, or the warning; then col1, col2 = st.columns(2)
Map ==
    /\ pc = "map"
    /\ IF ~({"Latitude", "Longitude"} \subseteq df_filtered.columns)
       THEN /\ Raise("KeyError", 159)
            /\ UNCHANGED <<df_filtered, map_folium, ui, col1>>
       ELSE /\ IF ~AnyAllNa(df_filtered, {"Latitude", "Longitude"})
               THEN LET located == dropna(df_filtered, {"Latitude", "Longitude"})
                    IN  /\ df_filtered' = located
                        /\ map_folium' = [t |-> "map", location |-> <<Mean(located, "Latitude"),
                                                         Mean(located, "Longitude")>>,
                                          markers |-> Markers(located)]
                        /\ ui' = ui \cup {"map"}
               ELSE /\ ui' = ui \cup {"warning: No valid data to display the map."}
                    /\ UNCHANGED <<df_filtered, map_folium>>
            /\ col1' = [t |-> "column"]
            /\ pc' = "pie"
            /\ exc' = exc
    /\ UNCHANGED <<fetchVars, data, df_kobo, date1, date2, filters, metric, df_final,
                   pie_chart_data, bar_chart_data>>

\* ---------------------------------------------------------------- charts
\* with col1: the pie chart of Type_PDV
PieChart ==
    /\ pc = "pie"
    /\ IF col1.t = "unbound"
       THEN /\ Raise("NameError", 178)
            /\ UNCHANGED <<pie_chart_data, ui>>
       ELSE /\ IF "Identification/Type_PDV" \in df_filtered.columns
               THEN /\ pie_chart_data' = value_counts(df_filtered, "Identification/Type_PDV")
                    /\ ui' = ui \cup {"pie chart"}
               ELSE UNCHANGED <<pie_chart_data, ui>>
            /\ pc' = "bar"
            /\ exc' = exc
    /\ UNCHANGED <<fetchVars, data, df_kobo, date1, date2, df_filtered, filters, metric,
                   df_final, map_folium, bar_chart_data, col1>>

\* with col2: the bar chart of Name_Agent
BarChart ==
    /\ pc = "bar"
    /\ IF "Name_Agent" \in df_filtered.columns
       THEN /\ bar_chart_data' = value_counts(df_filtered, "Name_Agent")
            /\ ui' = ui \cup {"bar chart"}
       ELSE UNCHANGED <<bar_chart_data, ui>>
    /\ pc' = "done"
    /\ UNCHANGED <<fetchVars, data, exc, df_kobo, date1, date2, df_filtered, filters,
                   metric, df_final, map_folium, pie_chart_data, col1>>

Next ==
    \/ RetryRequest
    \/ FetchFails
    \/ FetchSucceeds
    \/ CheckData
    \/ Normalize
    \/ Flatten
    \/ ProcessGPS
    \/ ConvertDate
    \/ DateFilter
    \/ CategoricalFilters
    \/ Analytics
    \/ Export
    \/ Map
    \/ PieChart
    \/ BarChart

Spec == Init /\ [][Next]_vars

\* ----------------------------------------------------------------- claims
Ended == pc \in {"done", "crashed"}

FetchError == "error: Error retrieving the data"
MapWarning == "warning: No valid data to display the map."
SondageError == "error: La colonne 'Sondage_Transformed' n'existe pas"

\* what the page shows of the rows
RowOutputs == {"raw table", "raw download", "metrics", "filtered table",
               "filtered download", "map", "pie chart", "bar chart"}

\* C1: when the fetch fails (data is None) the run shows the fetch error,
\* binds and shows nothing made of rows, and ends without an uncaught
\* exception.
C1_FetchFailureIsHandled ==
    data = None =>
        /\ FetchError \in ui
        /\ ui \cap RowOutputs = {}
        /\ df_kobo = Unbound /\ df_filtered = Unbound /\ metric = Unbound
        /\ exc = None
        /\ pc # "crashed"

\* the last tick of the calendar day a timestamp lies in
LastInstantOfDay(ts) == (ts.v \div DayTicks) * DayTicks + DayTicks - 1

NoSelection == \A c \in Range(FilterColumns) : filters[c] = {}

\* C2: with no categorical selection, df_filtered holds exactly the rows
\* whose _submission_time t satisfies d1 <= t <= the last instant of day d2.
C2_DateFilterIsExact ==
    (pc = "analytics" /\ NoSelection) =>
        Labels(df_filtered) =
            {l \in Labels(df_kobo) :
                LET t == df_kobo.cell[l]["_submission_time"]
                IN  ~IsNull(t) /\ date1.v <= t.v /\ t.v <= LastInstantOfDay(date2)}

\* C3: after the categorical filters, no row of df_filtered is null in a
\* column whose selection is not empty.
C3_NullNeverPassesSelection ==
    pc = "analytics" =>
        \A c \in Range(FilterColumns) :
            filters[c] # {} =>
                \A l \in Labels(df_filtered) : ~IsNull(df_filtered.cell[l][c])

\* the prices of the working set, in row order
Prices == [i \in 1..Len(df_filtered.index) |->
              df_filtered.cell[df_filtered.index[i]]["Sondage/PVT"]]

RECURSIVE TotalOf(_)
\* the sum of the non-null entries of a set of (position, price) pairs
TotalOf(S) ==
    IF S = {} THEN 0
    ELSE LET e == CHOOSE x \in S : TRUE
         IN  e[2].v + TotalOf(S \ {e})

OnlySurveyLine ==
    /\ Len(df_filtered.index) = 1
    /\ "Sondage_Transformed" \in df_filtered.columns
    /\ df_filtered.cell[df_filtered.index[1]]["Sondage_Transformed"] = SurveyLine

\* C5: the Sondage string "Retail 10.5 3 31.5" is split into Category
\* "Retail", UnitPrice 10.5, Quantity 3 and TotalPrice 31.5, and 31.5 is what
\* the total metric sums.
C5_SurveyLineIsSplit ==
    (pc = "export" /\ OnlySurveyLine) =>
        /\ {"Category", "UnitPrice", "Quantity", "TotalPrice"} \subseteq df_filtered.columns
        /\ LET row == df_filtered.cell[df_filtered.index[1]]
           IN  /\ row["Category"] = Str(<<"R", "e", "t", "a", "i", "l">>)
               /\ row["UnitPrice"] = Num(105)
               /\ row["Quantity"] = Num(30)
               /\ row["TotalPrice"] = Num(315)
        /\ metric.total_price = Num(315)

\* the fetched records, once data holds a payload with results
Results == IF data.t = "dict" /\ "results" \in data.keys THEN data.results ELSE <<>>

\* a fetched GPS string has fewer than four tokens, or a token float() rejects
MalformedGps(x) ==
    x.t = "str" /\ (Len(Split(x.v, " ")) < GpsWidth
                    \/ \E j \in 1..Len(Split(x.v, " ")) : ~IsFloatLiteral(Split(x.v, " ")[j]))

SomeMalformedGps ==
    \E i \in 1..Len(Results) : "GPS" \in DOMAIN Results[i] /\ MalformedGps(Results[i]["GPS"])

\* C6: records whose GPS string is short or holds a non-numeric token keep
\* their row, get null in the affected columns, and raise nothing.
C6_MalformedGpsIsNull ==
    (SomeMalformedGps /\ pc \notin {"fetch", "returned", "normalize", "flatten", "gps"}) =>
        /\ exc # Exception("ValueError", 81)
        /\ Len(df_kobo.index) = Len(Results)
        /\ \A i \in 1..Len(Results) :
              ("GPS" \in DOMAIN Results[i] /\ MalformedGps(Results[i]["GPS"])) =>
                  \E c \in Range(GpsColumns) : IsNull(df_kobo.cell[i - 1][c])

\* no fetched record has the field, and some record was fetched
FieldAbsent(k) == Results # <<>> /\ \A i \in 1..Len(Results) : k \notin DOMAIN Results[i]

\* C7: when no record has a GPS field the run ends without an exception,
\* with the map warning and no map; when no record has a Sondage field and
\* the run ends without an exception, it has shown the error and no metric.
C7_AbsentFieldIsWarned ==
    Ended =>
        /\ FieldAbsent("GPS") => exc = None /\ MapWarning \in ui /\ "map" \notin ui
        /\ (FieldAbsent("Sondage") /\ exc = None) =>
              SondageError \in ui /\ "metrics" \notin ui

\* the fetch returned an empty results array, or the filters left no row
NoRowSurvives ==
    \/ data.t = "dict" /\ "results" \in data.keys /\ data.results = <<>>
    \/ filters # Unbound /\ df_filtered.index = <<>>

\* C8: when no row survives the run ends without an exception, with a
\* warning, and with neither the map nor the charts.
C8_EmptyResultIsWarned ==
    (Ended /\ NoRowSurvives) =>
        /\ exc = None
        /\ MapWarning \in ui
        /\ ui \cap {"map", "pie chart", "bar chart"} = {}

\* this step sent a request and met an HTTP status
Sent == requests' = requests + 1 /\ last'.kind = "status"

Retried == pc' = "fetch" /\ total' = total - 1 /\ data' = data

Failed == pc' = "returned" /\ data' = None /\ FetchError \in ui'

\* the statuses urllib3 retries for their Retry-After header alone
RetryAfterOnly(resp) ==
    resp.retry_after /\ resp.code \in RETRY_AFTER_STATUS_CODES \ status_forcelist

Located(S) ==
    {l \in S : ~IsNull(df_kobo.cell[l]["Latitude"]) /\ ~IsNull(df_kobo.cell[l]["Longitude"])}

\* occurrences of each non-null value of a column among the rows S
CountsOver(S, col) ==
    LET seen == {df_kobo.cell[l][col] : l \in S} \ {Null}
    IN  [v \in seen |-> Cardinality({l \in S : df_kobo.cell[l][col] = v})]

\* the rows that pass the date range and every non-empty selection
WorkingSet ==
    {l \in Labels(df_kobo) :
        /\ LET t == df_kobo.cell[l]["_submission_time"]
           IN  ~IsNull(t) /\ date1.v <= t.v /\ t.v <= date2.v
        /\ \A c \in Range(FilterColumns) :
              filters[c] = {} \/ df_kobo.cell[l][c] \in filters[c]}

\* C10: once the charts are built, they count the working set without the
\* rows that lack a coordinate when the map was rendered, and the whole
\* working set otherwise; the row-count metric and the exported table are
\* of the whole working set (the rows of df_final).
C10_ChartsFollowTheMap ==
    pc = "done" =>
        LET working == WorkingSet
            charted == IF "map" \in ui THEN Located(working) ELSE working
        IN  /\ pie_chart_data.counts = CountsOver(charted, "Identification/Type_PDV")
            /\ bar_chart_data.counts = CountsOver(charted, "Name_Agent")
            /\ "metrics" \in ui => metric.num_rows = Cardinality(working)
            /\ Labels(df_final) = working
            /\ "map" \in ui => Len(map_folium.markers) = Cardinality(charted)

C10_Witness ==
    /\ pc = "done"
    /\ "map" \in ui
    /\ "metrics" \in ui
    /\ Cardinality(Located(Labels(df_final))) < Cardinality(Labels(df_final))
    /\ \E l \in Labels(df_final) :
          ~IsNull(df_kobo.cell[l]["Latitude"]) /\ IsNull(df_kobo.cell[l]["Longitude"])

====
